---------------------------- MODULE Spec2Model ----------------------------
(***************************************************************************)
(* A model of safe_uploader.py: the repeater process (main), the           *)
(* termination file (get_term_file, check_term_file), the orchestrator     *)
(* safe_upload and the caller's teardown kill_precursor_procs.             *)
(*                                                                         *)
(* The script is Python 2 (urllib.quote_plus, line 121), so:               *)
(*   - sys.stdin.read(BLOCK) blocks until BLOCK bytes or end-of-file;      *)
(*     an empty read means every writer of the pipe has closed it;         *)
(*   - an exception raised in a finally clause replaces the pending one;   *)
(*   - a bare raise re-raises the exception most recently handled in the   *)
(*     frame, also one a nested try/except has swallowed.                  *)
(* Processes are OS processes; their steps interleave with the steps of    *)
(* the single-threaded orchestrator.                                       *)
(***************************************************************************)
EXTENDS Naturals, Sequences, FiniteSets

\* ---------------------------------------------------------------- bounds

\* bytes the last precursor proc may write to the repeater's stdin
MaxBytes == 2

\* calls of kill_precursor_procs the caller makes after safe_upload ended
MaxKillCalls == 2

\* ------------------------------------------------------------- constants

\* BLOCK = 262144, scaled down: the size of one read of the repeater
BLOCK == 2

TERM_STRING == <<"T", "I", "M", "E", "_", "T", "O", "_", "D", "I", "E">>

\* a truncated write of TERM_STRING ("TIME_TO_DI")
Truncated == SubSeq(TERM_STRING, 1, Len(TERM_STRING) - 1)

\* the precursor procs of the caller, a pipeline whose last proc writes the
\* stream that is the stdin argument of safe_upload
Precursors == {"a", "b"}
LastPrecursor == "b"

UploadNames == {"repeater", "uploader"}

\* the exceptions of the model; "none" is no exception
NoExc == "none"

\* the jobs that share the term directory, and the names tempfile.mkstemp
\* draws from
Jobs == {"j1", "j2"}
Names == {"tmpA", "tmpB", "tmpC"}
NoPath == "none"

\* the repeater has not polled the term file yet
NoPoll == [seen |-> FALSE, exists |-> FALSE, contents |-> <<>>,
           verdict |-> FALSE]

VARIABLES
    precursor_procs,  \* name -> "running" | "ok" | "fail" | "killed"
    upload_procs,     \* name -> "none" (not in the dict) | "running" | "ok" | "fail" | "killed"
    reaped,           \* the procs whose exit a poll() has collected: their pid is gone
    uploaderEOF,      \* the uploader has read end-of-file on its stdin
    check_func,       \* whether the caller supplied check_func
    termBound,        \* the local term_path is bound
    termExists,       \* the term file exists
    termContents,     \* the contents of the term file
    pc,               \* the position of safe_upload
    exc,              \* the exception pending in safe_upload (sys.exc_info)
    result,           \* what reached the caller: "none" | "return" | an exception
    pipe,             \* bytes written to the repeater's stdin and not yet read
    nWritten,         \* bytes the last precursor has written
    rpc,              \* the position of the repeater's loop
    data,             \* the repeater's local data
    consumed,         \* every byte the repeater has read
    out,              \* every byte the repeater has written to its stdout
    kpc,              \* the position of kill_precursor_procs
    kTodo,            \* the procs kill_precursor_procs has not visited yet
    kCur,             \* the proc kill_precursor_procs is at
    kCalls,           \* calls of kill_precursor_procs so far
    \* history, written and never read by the program
    raised,           \* the first exception raised in the try body
    precursorsOK,     \* check_dict_of_procs(precursor_procs) has returned True
    checked,          \* check_func has returned
    signaled,         \* TERM_STRING has been written to the term file
    waited,           \* the final wait loop has polled upload_procs
    killAttempted,    \* the upload procs safe_upload has called kill() on
    killSkipped,      \* the upload procs whose kill safe_upload skipped as not existing
    rmCalls,          \* calls of os.remove
    polled,           \* the last poll of the term file by the repeater
    kRaised,          \* an exception has left kill_precursor_procs
    \* the shared term directory and the jobs that create term files in it
    dirExists,        \* the directory RAID_MOUNT/TERM_DIR exists
    files,            \* the names of the files in the term directory
    jpc,              \* job -> the position of its get_term_file call
    jpath             \* job -> the path get_term_file returned to it

vars == <<precursor_procs, upload_procs, reaped, uploaderEOF, check_func,
          termBound, termExists, termContents, pc, exc, result, pipe,
          nWritten, rpc, data, consumed, out, kpc, kTodo, kCur, kCalls,
          raised, precursorsOK, checked, signaled, waited, killAttempted,
          killSkipped, rmCalls, polled, kRaised, dirExists, files, jpc,
          jpath>>

procVars == <<precursor_procs, upload_procs, reaped, uploaderEOF>>
termVars == <<termBound, termExists, termContents>>
relayVars == <<rpc, data, consumed, out, polled>>
streamVars == <<pipe, nWritten>>
killerVars == <<kpc, kTodo, kCur, kCalls, kRaised>>
jobVars == <<dirExists, files, jpc, jpath>>
histVars == <<raised, precursorsOK, checked, signaled, waited, killAttempted,
              killSkipped, rmCalls>>

\* ---------------------------------------------------------------- helpers

Min(a, b) == IF a < b THEN a ELSE b

Take(s, n) == SubSeq(s, 1, Min(n, Len(s)))

Drop(s, n) == SubSeq(s, Min(n, Len(s)) + 1, Len(s))

Exited(s) == s \in {"ok", "fail", "killed"}

Failed(s) == s \in {"fail", "killed"}

\* psutil.pid_exists(proc.pid): the process runs, or has exited and no
\* poll() has collected it yet
pid_exists(n) == n \notin reaped

\* check_term_file: read len(TERM_STRING) bytes and compare
check_term_fileMutant(contents) == contents = Take(TERM_STRING, Len(contents))
check_term_file(contents) == Take(contents, Len(TERM_STRING)) = TERM_STRING

\* host_utils.check_dict_of_procs on a snapshot of the group: "raise" when a
\* proc exited with a non-success status, "true" when all exited with
\* success, "false" while some still run
check_dict_of_procs(procs) ==
    IF \E n \in DOMAIN procs : Failed(procs[n]) THEN "raise"
    ELSE IF \A n \in DOMAIN procs : procs[n] = "ok" THEN "true"
    ELSE "false"

\* the procs a call of check_dict_of_procs may have collected: all that
\* exited when it returns, at least the offending one when it raises
Collected(procs) ==
    LET ex == {n \in DOMAIN procs : Exited(procs[n])}
    IN  IF check_dict_of_procs(procs) = "raise"
        THEN {S \in SUBSET ex : \E n \in S : Failed(procs[n])}
        ELSE {ex}

\* the repeater's stdin is at end-of-file: its writer has exited
StdinClosed == precursor_procs[LastPrecursor] # "running"

\* the uploader's stdin is at end-of-file: the repeater, the only holder of
\* the write end, has exited
RepeaterGone == Exited(upload_procs["repeater"])

Init ==
    /\ precursor_procs = [n \in Precursors |-> "running"]
    /\ upload_procs = [n \in UploadNames |-> "none"]
    /\ reaped = {}
    /\ uploaderEOF = FALSE
    /\ check_func \in BOOLEAN
    /\ termBound = FALSE
    /\ termExists = FALSE
    /\ termContents = <<>>
    /\ pc = "get_term_file"
    /\ exc = NoExc
    /\ result = "none"
    /\ pipe = <<>>
    /\ nWritten = 0
    /\ rpc = "read"
    /\ data = <<>>
    /\ consumed = <<>>
    /\ out = <<>>
    /\ kpc = "idle"
    /\ kTodo = {}
    /\ kCur = "a"
    /\ kCalls = 0
    /\ raised = NoExc
    /\ precursorsOK = FALSE
    /\ checked = FALSE
    /\ signaled = FALSE
    /\ waited = FALSE
    /\ killAttempted = {}
    /\ killSkipped = {}
    /\ rmCalls = 0
    /\ polled = NoPoll
    /\ kRaised = FALSE
    /\ dirExists = TRUE
    /\ files = {}
    /\ jpc = [j \in Jobs |-> "idle"]
    /\ jpath = [j \in Jobs |-> NoPath]

\* ------------------------------------------------- the precursor procs

\* the last precursor writes the next byte of the stream to its stdout
PrecursorWrite ==
    /\ precursor_procs[LastPrecursor] = "running"
    /\ nWritten < MaxBytes
    /\ nWritten' = nWritten + 1
    /\ pipe' = Append(pipe, nWritten + 1)
    /\ UNCHANGED <<procVars, check_func, jobVars, termVars, pc, exc, result,
                   relayVars, killerVars, histVars>>

\* a precursor exits on its own, with success or with a non-zero status
PrecursorExit ==
    \E n \in Precursors, s \in {"ok", "fail"} :
        /\ precursor_procs[n] = "running"
        /\ precursor_procs' = [precursor_procs EXCEPT ![n] = s]
        /\ UNCHANGED <<upload_procs, reaped, uploaderEOF, check_func, jobVars,
                       termVars, pc, exc, result, streamVars, relayVars,
                       killerVars, histVars>>

\* ------------------------------------------------- the repeater (main)

RepeaterRuns == upload_procs["repeater"] = "running"

\* line 29 as a read that does not block: it returns what is there, which
\* may be nothing while the writer still runs
RepeaterReadMutant ==
    /\ RepeaterRuns
    /\ rpc = "read"
    /\ data' = Take(pipe, BLOCK)
    /\ pipe' = Drop(pipe, BLOCK)
    /\ consumed' = consumed \o data'
    /\ rpc' = IF Len(data') = 0 THEN "probe" ELSE "forward"
    /\ UNCHANGED <<procVars, check_func, jobVars, termVars, pc, exc, result,
                   nWritten, out, polled, killerVars, histVars>>

\* line 29: data = sys.stdin.read(BLOCK), which returns once BLOCK bytes are
\* there or the stream has ended
RepeaterRead ==
    /\ RepeaterRuns
    /\ rpc = "read"
    /\ Len(pipe) >= BLOCK \/ StdinClosed
    /\ data' = Take(pipe, BLOCK)
    /\ pipe' = Drop(pipe, BLOCK)
    /\ consumed' = consumed \o data'
    /\ rpc' = IF Len(data') = 0 THEN "probe" ELSE "forward"
    /\ UNCHANGED <<procVars, check_func, jobVars, termVars, pc, exc, result,
                   nWritten, out, polled, killerVars, histVars>>

\* line 29 raises an I/O error: nothing catches it and the process ends
\* with a non-zero status
RepeaterFault ==
    /\ RepeaterRuns
    /\ rpc = "read"
    /\ upload_procs' = [upload_procs EXCEPT !["repeater"] = "fail"]
    /\ UNCHANGED <<precursor_procs, reaped, uploaderEOF, check_func, jobVars,
                   termVars, pc, exc, result, streamVars, relayVars,
                   killerVars, histVars>>

\* line 40 without the write: the chunk is dropped
RepeaterForwardMutant ==
    /\ RepeaterRuns
    /\ rpc = "forward"
    /\ out' = out
    /\ rpc' = "read"
    /\ UNCHANGED <<procVars, check_func, jobVars, termVars, pc, exc, result,
                   streamVars, data, consumed, polled, killerVars,
                   histVars>>

\* line 40: sys.stdout.write(data)
RepeaterForward ==
    /\ RepeaterRuns
    /\ rpc = "forward"
    /\ out' = out \o data
    /\ rpc' = "read"
    /\ UNCHANGED <<procVars, check_func, jobVars, termVars, pc, exc, result,
                   streamVars, data, consumed, polled, killerVars,
                   histVars>>

\* lines 31-34: sleep, then write the empty data
RepeaterProbe ==
    /\ RepeaterRuns
    /\ rpc = "probe"
    /\ out' = out \o data
    /\ rpc' = "poll"
    /\ UNCHANGED <<procVars, check_func, jobVars, termVars, pc, exc, result,
                   streamVars, data, consumed, polled, killerVars,
                   histVars>>

\* lines 36-38: whether the repeater may exit
MayExitMutant == termExists /\ termContents = TERM_STRING
MayExit == termExists /\ check_term_file(termContents)

\* lines 36-38: exit with status 0 when the term file holds TERM_STRING
RepeaterPoll ==
    /\ RepeaterRuns
    /\ rpc = "poll"
    /\ polled' = [seen |-> TRUE, exists |-> termExists,
                  contents |-> termContents, verdict |-> MayExit]
    /\ IF MayExit
       THEN /\ upload_procs' = [upload_procs EXCEPT !["repeater"] = "ok"]
            /\ rpc' = "exit"
       ELSE /\ rpc' = "read"
            /\ UNCHANGED upload_procs
    /\ UNCHANGED <<precursor_procs, reaped, uploaderEOF, check_func, jobVars,
                   termVars, pc, exc, result, streamVars, data, consumed,
                   out, killerVars, histVars>>

\* ------------------------------------------------- the uploader (gof3r put)

\* the uploader reads end-of-file: the write end of its stdin pipe is held
\* by the repeater alone, and closes when the repeater ends in any way
UploaderSeesEOF ==
    /\ upload_procs["uploader"] = "running"
    /\ RepeaterGone
    /\ ~uploaderEOF
    /\ uploaderEOF' = TRUE
    /\ UNCHANGED <<precursor_procs, upload_procs, reaped, check_func, jobVars,
                   termVars, pc, exc, result, streamVars, relayVars,
                   killerVars, histVars>>

\* the uploader exits: with a failure at any time, with success once its
\* input has ended
UploaderExit ==
    \E s \in {"ok", "fail"} :
        /\ upload_procs["uploader"] = "running"
        /\ s = "ok" => uploaderEOF
        /\ upload_procs' = [upload_procs EXCEPT !["uploader"] = s]
        /\ UNCHANGED <<precursor_procs, reaped, uploaderEOF, check_func, jobVars,
                       termVars, pc, exc, result, streamVars, relayVars,
                       killerVars, histVars>>

\* ------------------------------------------------- safe_upload

\* an exception leaves the try body: control goes to the except clause
Raise(e) ==
    /\ exc' = e
    /\ raised' = e
    /\ pc' = "except_uploader"

\* line 114: term_path = get_term_file()
GetTermFile ==
    /\ pc = "get_term_file"
    /\ \/ /\ termBound' = TRUE
          /\ termExists' = TRUE
          /\ termContents' = <<>>
          /\ pc' = "spawn_repeater"
          /\ UNCHANGED <<exc, raised>>
       \/ /\ Raise("TokenCreateFailure")
          /\ UNCHANGED termVars
    /\ UNCHANGED <<procVars, check_func, jobVars, result, streamVars, relayVars,
                   killerVars, precursorsOK, checked, signaled, waited,
                   killAttempted, killSkipped, rmCalls>>

\* lines 115-118 and 119-124: upload_procs[n] = subprocess.Popen(...)
Spawn(n, next) ==
    /\ \/ /\ upload_procs' = [upload_procs EXCEPT ![n] = "running"]
          /\ pc' = next
          /\ UNCHANGED <<exc, raised>>
       \/ /\ Raise("SpawnFailure")
          /\ UNCHANGED upload_procs
    /\ UNCHANGED <<precursor_procs, reaped, uploaderEOF, check_func, jobVars,
                   termVars, result, streamVars, relayVars, killerVars,
                   precursorsOK, checked, signaled, waited, killAttempted,
                   killSkipped, rmCalls>>

SpawnRepeater ==
    /\ pc = "spawn_repeater"
    /\ Spawn("repeater", "spawn_uploader")

SpawnUploader ==
    /\ pc = "spawn_uploader"
    /\ Spawn("uploader", "poll_precursors")

\* line 129: the loop goes on while the precursors have not all succeeded
AfterPrecursorPollMutant(r) == "check_func"
AfterPrecursorPoll(r) == IF r = "true" THEN "check_func" ELSE "poll_upload"

\* line 129: while not host_utils.check_dict_of_procs(precursor_procs)
PollPrecursors ==
    /\ pc = "poll_precursors"
    /\ \E S \in Collected(precursor_procs) : reaped' = reaped \cup S
    /\ LET r == check_dict_of_procs(precursor_procs)
       IN  IF r = "raise"
           THEN /\ Raise("ProducerFailure")
                /\ UNCHANGED precursorsOK
           ELSE /\ pc' = AfterPrecursorPoll(r)
                /\ precursorsOK' = (precursorsOK \/ r = "true")
                /\ UNCHANGED <<exc, raised>>
    /\ UNCHANGED <<precursor_procs, upload_procs, uploaderEOF, check_func, jobVars,
                   termVars, result, streamVars, relayVars, killerVars,
                   checked, signaled, waited, killAttempted, killSkipped,
                   rmCalls>>

\* lines 130-131 with the failure of an upload proc dropped like the value
PollUploadMutant ==
    /\ pc = "poll_upload"
    /\ \E S \in Collected(upload_procs) : reaped' = reaped \cup S
    /\ pc' = "poll_precursors"
    /\ UNCHANGED <<precursor_procs, upload_procs, uploaderEOF, check_func, jobVars,
                   termVars, exc, result, streamVars, relayVars, killerVars,
                   histVars>>

\* lines 130-131: host_utils.check_dict_of_procs(upload_procs), its value
\* dropped, then the sleep
PollUpload ==
    /\ pc = "poll_upload"
    /\ \E S \in Collected(upload_procs) : reaped' = reaped \cup S
    /\ IF check_dict_of_procs(upload_procs) = "raise"
       THEN Raise("UploadSideFailure")
       ELSE /\ pc' = "poll_precursors"
            /\ UNCHANGED <<exc, raised>>
    /\ UNCHANGED <<precursor_procs, upload_procs, uploaderEOF, check_func, jobVars,
                   termVars, result, streamVars, relayVars, killerVars,
                   precursorsOK, checked, signaled, waited, killAttempted,
                   killSkipped, rmCalls>>

\* lines 135-136: if check_func: check_func(check_arg)
CheckFunc ==
    /\ pc = "check_func"
    /\ \/ /\ ~check_func
          /\ pc' = "signal"
          /\ UNCHANGED <<exc, raised, checked>>
       \/ /\ check_func
          /\ pc' = "signal"
          /\ checked' = TRUE
          /\ UNCHANGED <<exc, raised>>
       \/ /\ check_func
          /\ Raise("ValidationFailure")
          /\ UNCHANGED checked
    /\ UNCHANGED <<procVars, check_func, jobVars, termVars, result, streamVars,
                   relayVars, killerVars, precursorsOK, signaled, waited,
                   killAttempted, killSkipped, rmCalls>>

\* lines 140-141 writing one byte less than TERM_STRING
SignalMutant ==
    /\ pc = "signal"
    /\ termExists' = TRUE
    /\ termContents' = Truncated
    /\ signaled' = TRUE
    /\ pc' = "wait_upload"
    /\ UNCHANGED <<procVars, check_func, jobVars, termBound, exc, result,
                   streamVars, relayVars, killerVars, raised, precursorsOK,
                   checked, waited, killAttempted, killSkipped, rmCalls>>

\* lines 140-141: open the term file for writing and write TERM_STRING; a
\* failed write leaves the file empty or truncated
Signal ==
    /\ pc = "signal"
    /\ termExists' = TRUE
    /\ \/ /\ termContents' = TERM_STRING
          /\ signaled' = TRUE
          /\ pc' = "wait_upload"
          /\ UNCHANGED <<exc, raised>>
       \/ /\ termContents' \in {<<>>, Truncated}
          /\ Raise("TokenSignalFailure")
          /\ UNCHANGED signaled
    /\ UNCHANGED <<procVars, check_func, jobVars, termBound, result, streamVars,
                   relayVars, killerVars, precursorsOK, checked, waited,
                   killAttempted, killSkipped, rmCalls>>

\* line 144: the loop goes on while the upload procs have not all succeeded
AfterUploadPollMutant(r) == "finally"
AfterUploadPoll(r) == IF r = "true" THEN "finally" ELSE "wait_upload"

\* lines 144-145: while not host_utils.check_dict_of_procs(upload_procs)
WaitUpload ==
    /\ pc = "wait_upload"
    /\ waited' = TRUE
    /\ \E S \in Collected(upload_procs) : reaped' = reaped \cup S
    /\ LET r == check_dict_of_procs(upload_procs)
       IN  IF r = "raise"
           THEN Raise("UploadSideFailure")
           ELSE /\ pc' = AfterUploadPoll(r)
                /\ UNCHANGED <<exc, raised>>
    /\ UNCHANGED <<precursor_procs, upload_procs, uploaderEOF, check_func, jobVars,
                   termVars, result, streamVars, relayVars, killerVars,
                   precursorsOK, checked, signaled, killAttempted,
                   killSkipped, rmCalls>>

\* Popen.kill(): SIGKILL ends a running process and changes nothing of one
\* that has exited
Kill(status) == IF status = "running" THEN "killed" ELSE status

\* lines 152-155, 159-163: the exception the bare raise of line 163 will
\* re-raise after a kill() inside try/except: the pending one, or the one
\* kill() raised and the except clause swallowed (Python 2 keeps the last
\* handled exception of the frame)
ExcAfterKill(pending, killRaised) ==
    IF killRaised THEN "KillError" ELSE pending

\* lines 150-151 and 157-158: is the proc in upload_procs, and does its pid
\* exist
ExceptCheck(n, kill, next) ==
    /\ IF upload_procs[n] # "none" /\ pid_exists(n)
       THEN /\ pc' = kill
            /\ UNCHANGED killSkipped
       ELSE /\ pc' = next
            /\ killSkipped' = killSkipped \cup {n}
    /\ UNCHANGED <<procVars, check_func, jobVars, termVars, exc, result, streamVars,
                   relayVars, killerVars, raised, precursorsOK, checked,
                   signaled, waited, killAttempted, rmCalls>>

\* ExceptKill with the teardown also killing the precursor procs
ExceptKillMutant(n, next) ==
    /\ \E killRaised \in BOOLEAN :
        /\ killRaised => upload_procs[n] # "running"
        /\ exc' = ExcAfterKill(exc, killRaised)
    /\ upload_procs' = [upload_procs EXCEPT ![n] = Kill(@)]
    /\ precursor_procs' = [m \in Precursors |-> Kill(precursor_procs[m])]
    /\ killAttempted' = killAttempted \cup {n}
    /\ pc' = next
    /\ UNCHANGED <<reaped, uploaderEOF, check_func, jobVars,
                   termVars, result, streamVars, relayVars, killerVars,
                   raised, precursorsOK, checked, signaled, waited,
                   killSkipped, rmCalls>>

\* lines 152-155 and 159-162: try: kill() except: pass. kill() can raise
\* only because the process is gone
ExceptKill(n, next) ==
    /\ \E killRaised \in BOOLEAN :
        /\ killRaised => upload_procs[n] # "running"
        /\ exc' = ExcAfterKill(exc, killRaised)
    /\ upload_procs' = [upload_procs EXCEPT ![n] = Kill(@)]
    /\ killAttempted' = killAttempted \cup {n}
    /\ pc' = next
    /\ UNCHANGED <<precursor_procs, reaped, uploaderEOF, check_func, jobVars,
                   termVars, result, streamVars, relayVars, killerVars,
                   raised, precursorsOK, checked, signaled, waited,
                   killSkipped, rmCalls>>

\* the teardown without lines 150-155: it goes for the repeater first
ExceptUploaderMutant ==
    /\ pc = "except_uploader"
    /\ pc' = "except_repeater"
    /\ UNCHANGED <<procVars, check_func, jobVars, termVars, exc, result,
                   streamVars, relayVars, killerVars, histVars>>

\* lines 150-151: the uploader is in upload_procs and its pid exists
ExceptUploader ==
    /\ pc = "except_uploader"
    /\ ExceptCheck("uploader", "kill_uploader", "except_repeater")

KillUploader ==
    /\ pc = "kill_uploader"
    /\ ExceptKill("uploader", "except_repeater")

\* lines 157-158: the repeater is in upload_procs and its pid exists
ExceptRepeater ==
    /\ pc = "except_repeater"
    /\ ExceptCheck("repeater", "kill_repeater", "finally")

\* after it, line 163 re-raises and control goes to the finally clause
KillRepeater ==
    /\ pc = "kill_repeater"
    /\ ExceptKill("repeater", "finally")

\* lines 163-165: what reaches the caller once the finally clause has run:
\* the NameError of the unbound term_path or the error of os.remove, which
\* replace the pending exception, else the pending exception, else a return
FinallyResult(pending, bound, removed) ==
    IF ~bound THEN "UnboundLocalError"
    ELSE IF ~removed THEN "TokenRemoveFailure"
    ELSE IF pending = NoExc THEN "return"
    ELSE pending

\* Finally with os.remove at the end of the try body instead: it runs on
\* the success path alone
FinallyMutant ==
    /\ pc = "finally"
    /\ pc' = "done"
    /\ IF exc # NoExc
       THEN /\ result' = exc
            /\ UNCHANGED <<termExists, rmCalls>>
       ELSE /\ rmCalls' = rmCalls + 1
            /\ \E removed \in BOOLEAN :
                /\ termExists' = (termExists /\ ~removed)
                /\ result' = FinallyResult(exc, TRUE, removed)
    /\ UNCHANGED <<procVars, check_func, jobVars, termBound, termContents, exc,
                   streamVars, relayVars, killerVars, raised, precursorsOK,
                   checked, signaled, waited, killAttempted, killSkipped>>

\* lines 164-165: finally: os.remove(term_path)
Finally ==
    /\ pc = "finally"
    /\ pc' = "done"
    /\ IF ~termBound
       THEN /\ result' = FinallyResult(exc, FALSE, FALSE)
            /\ UNCHANGED <<termExists, rmCalls>>
       ELSE /\ rmCalls' = rmCalls + 1
            /\ \E removed \in BOOLEAN :
                /\ termExists' = (termExists /\ ~removed)
                /\ result' = FinallyResult(exc, TRUE, removed)
    /\ UNCHANGED <<procVars, check_func, jobVars, termBound, termContents, exc,
                   streamVars, relayVars, killerVars, raised, precursorsOK,
                   checked, signaled, waited, killAttempted, killSkipped>>

\* ------------------------------------------------- kill_precursor_procs

\* the caller, after safe_upload has ended, calls kill_precursor_procs
KillPrecursorsCall ==
    /\ pc = "done"
    /\ kpc = "idle"
    /\ kCalls < MaxKillCalls
    /\ kCalls' = kCalls + 1
    /\ kTodo' = Precursors
    /\ kpc' = "loop"
    /\ UNCHANGED <<procVars, check_func, jobVars, termVars, pc, exc, result,
                   streamVars, relayVars, kCur, kRaised, histVars>>

\* lines 174-175: the next proc of the dict, and whether its pid exists
KillPrecursorsNext ==
    /\ kpc = "loop"
    /\ \E n \in kTodo :
        /\ kTodo' = kTodo \ {n}
        /\ IF pid_exists(n)
           THEN kCur' = n /\ kpc' = "kill"
           ELSE UNCHANGED <<kCur, kpc>>
    /\ UNCHANGED <<procVars, check_func, jobVars, termVars, pc, exc, result,
                   streamVars, relayVars, kCalls, kRaised, histVars>>

\* lines 176-180: whether an exception has left kill_precursor_procs once
\* kill() has run inside try: ... except: pass
KillErrorEscapesMutant(escaped, killRaised) == escaped \/ killRaised
KillErrorEscapes(escaped, killRaised) == escaped

\* lines 176-180: try: kill() except: pass. kill() can raise only because
\* the process is gone
KillPrecursorsKill ==
    /\ kpc = "kill"
    /\ \E killRaised \in BOOLEAN :
        /\ killRaised => precursor_procs[kCur] # "running"
        /\ kRaised' = KillErrorEscapes(kRaised, killRaised)
    /\ precursor_procs' = [precursor_procs EXCEPT ![kCur] = Kill(@)]
    /\ kpc' = "loop"
    /\ UNCHANGED <<upload_procs, reaped, uploaderEOF, check_func, jobVars, termVars,
                   pc, exc, result, streamVars, relayVars, kTodo, kCur,
                   kCalls, histVars>>

\* line 174: the loop is over
KillPrecursorsReturn ==
    /\ kpc = "loop"
    /\ kTodo = {}
    /\ kpc' = "idle"
    /\ UNCHANGED <<procVars, check_func, jobVars, termVars, pc, exc, result,
                   streamVars, relayVars, kTodo, kCur, kCalls, kRaised,
                   histVars>>

\* ------------------------------------------------- specification

Next ==
    \/ PrecursorWrite
    \/ PrecursorExit
    \/ RepeaterRead
    \/ RepeaterFault
    \/ RepeaterForward
    \/ RepeaterProbe
    \/ RepeaterPoll
    \/ UploaderSeesEOF
    \/ UploaderExit
    \/ GetTermFile
    \/ SpawnRepeater
    \/ SpawnUploader
    \/ PollPrecursors
    \/ PollUpload
    \/ CheckFunc
    \/ Signal
    \/ WaitUpload
    \/ ExceptUploader
    \/ KillUploader
    \/ ExceptRepeater
    \/ KillRepeater
    \/ Finally
    \/ KillPrecursorsCall
    \/ KillPrecursorsNext
    \/ KillPrecursorsKill
    \/ KillPrecursorsReturn

Spec == Init /\ [][Next]_vars

\* ------------------------------------------------- the repeater on its own

\* a string as long as TERM_STRING that differs from it in its last byte
WrongString == [TERM_STRING EXCEPT ![Len(TERM_STRING)] = "X"]

\* TERM_STRING followed by one more byte
Overlong == TERM_STRING \o <<"X">>

\* what the file at terminate_path may hold
TermFileStates == {<<>>, Truncated, WrongString, TERM_STRING, Overlong}

\* the repeater started by hand (line 183: main()), with any writer of
\* terminate_path in its environment
InitRelay ==
    /\ precursor_procs = [n \in Precursors |-> "running"]
    /\ upload_procs = [n \in UploadNames |->
                          IF n = "repeater" THEN "running" ELSE "none"]
    /\ reaped = {}
    /\ uploaderEOF = FALSE
    /\ check_func = FALSE
    /\ termBound = FALSE
    /\ termExists \in BOOLEAN
    /\ termContents = <<>>
    /\ pc = "standalone"
    /\ exc = NoExc
    /\ result = "none"
    /\ pipe = <<>>
    /\ nWritten = 0
    /\ rpc = "read"
    /\ data = <<>>
    /\ consumed = <<>>
    /\ out = <<>>
    /\ kpc = "idle"
    /\ kTodo = {}
    /\ kCur = "a"
    /\ kCalls = 0
    /\ raised = NoExc
    /\ precursorsOK = FALSE
    /\ checked = FALSE
    /\ signaled = FALSE
    /\ waited = FALSE
    /\ killAttempted = {}
    /\ killSkipped = {}
    /\ rmCalls = 0
    /\ polled = NoPoll
    /\ kRaised = FALSE
    /\ dirExists = TRUE
    /\ files = {}
    /\ jpc = [j \in Jobs |-> "idle"]
    /\ jpath = [j \in Jobs |-> NoPath]

\* some process creates the file at terminate_path or rewrites it
TermWrite ==
    \E c \in TermFileStates :
        /\ pc = "standalone"
        /\ ~termExists \/ c # termContents
        /\ termExists' = TRUE
        /\ termContents' = c
        /\ UNCHANGED <<procVars, check_func, jobVars, termBound, pc, exc,
                       result, streamVars, relayVars, killerVars, histVars>>

NextRelay ==
    \/ PrecursorWrite
    \/ PrecursorExit
    \/ RepeaterRead
    \/ RepeaterFault
    \/ RepeaterForward
    \/ RepeaterProbe
    \/ RepeaterPoll
    \/ TermWrite

RelaySpec == InitRelay /\ [][NextRelay]_vars

\* ------------------------------------------------- jobs creating term files

\* a term file an earlier job may have left in the directory
LeftBehind == "tmpC"

\* everything but the term directory and the jobs
runVars == <<procVars, check_func, termVars, pc, exc, result, streamVars,
             relayVars, killerVars, histVars>>

\* two jobs on one host call get_term_file, and later remove their file
\* (line 165); the term directory may or may not exist at the start.
\* Faults of the file system other than "exists already" are left out.
InitToken ==
    /\ precursor_procs = [n \in Precursors |-> "running"]
    /\ upload_procs = [n \in UploadNames |-> "none"]
    /\ reaped = {}
    /\ uploaderEOF = FALSE
    /\ check_func = FALSE
    /\ termBound = FALSE
    /\ termExists = FALSE
    /\ termContents = <<>>
    /\ pc = "jobs"
    /\ exc = NoExc
    /\ result = "none"
    /\ pipe = <<>>
    /\ nWritten = 0
    /\ rpc = "read"
    /\ data = <<>>
    /\ consumed = <<>>
    /\ out = <<>>
    /\ kpc = "idle"
    /\ kTodo = {}
    /\ kCur = "a"
    /\ kCalls = 0
    /\ raised = NoExc
    /\ precursorsOK = FALSE
    /\ checked = FALSE
    /\ signaled = FALSE
    /\ waited = FALSE
    /\ killAttempted = {}
    /\ killSkipped = {}
    /\ rmCalls = 0
    /\ polled = NoPoll
    /\ kRaised = FALSE
    /\ dirExists \in BOOLEAN
    /\ files \in (IF dirExists THEN {{}, {LeftBehind}} ELSE {{}})
    /\ jpc = [j \in Jobs |-> "idle"]
    /\ jpath = [j \in Jobs |-> NoPath]

\* line 76: get_term_file calls get_term_dir
JobCall(j) ==
    /\ jpc[j] = "idle"
    /\ jpc' = [jpc EXCEPT ![j] = "exists"]
    /\ UNCHANGED <<dirExists, files, jpath, runVars>>

\* line 65: if not os.path.exists(term_dir)
JobExists(j) ==
    /\ jpc[j] = "exists"
    /\ jpc' = [jpc EXCEPT ![j] = IF dirExists THEN "mkstemp" ELSE "mkdir"]
    /\ UNCHANGED <<dirExists, files, jpath, runVars>>

\* line 66: os.mkdir(term_dir), which raises OSError when the directory
\* exists; nothing in get_term_dir or get_term_file catches it
JobMkdir(j) ==
    /\ jpc[j] = "mkdir"
    /\ IF dirExists
       THEN /\ jpc' = [jpc EXCEPT ![j] = "failed"]
            /\ UNCHANGED dirExists
       ELSE /\ jpc' = [jpc EXCEPT ![j] = "mkstemp"]
            /\ dirExists' = TRUE
    /\ UNCHANGED <<files, jpath, runVars>>

\* tempfile.mkstemp opens its candidate name with O_CREAT | O_EXCL: the open
\* succeeds only for a name no file of the directory has
ExclMutant(name, present) == TRUE
Excl(name, present) == name \notin present

\* line 77: (handle, path) = tempfile.mkstemp(dir=term_dir); a candidate
\* name that is taken is skipped and another one is tried
JobMkstemp(j) ==
    \E name \in Names :
        /\ jpc[j] = "mkstemp"
        /\ dirExists
        /\ Excl(name, files)
        /\ files' = files \cup {name}
        /\ jpath' = [jpath EXCEPT ![j] = name]
        /\ jpc' = [jpc EXCEPT ![j] = "close"]
        /\ UNCHANGED <<dirExists, runVars>>

\* lines 78-79: os.close(handle); return path
JobReturn(j) ==
    /\ jpc[j] = "close"
    /\ jpc' = [jpc EXCEPT ![j] = "done"]
    /\ UNCHANGED <<dirExists, files, jpath, runVars>>

\* line 165: the job removes its term file when its upload has ended, and
\* may start another upload
JobRemove(j) ==
    /\ jpc[j] = "done"
    /\ files' = files \ {jpath[j]}
    /\ jpath' = [jpath EXCEPT ![j] = NoPath]
    /\ jpc' = [jpc EXCEPT ![j] = "idle"]
    /\ UNCHANGED <<dirExists, runVars>>

NextToken ==
    \/ \E j \in Jobs : JobCall(j)
    \/ \E j \in Jobs : JobExists(j)
    \/ \E j \in Jobs : JobMkdir(j)
    \/ \E j \in Jobs : JobMkstemp(j)
    \/ \E j \in Jobs : JobReturn(j)
    \/ \E j \in Jobs : JobRemove(j)

TokenSpec == InitToken /\ [][NextToken]_vars

\* ------------------------------------------------- the run without faults

\* no proc has exited with a non-success status, nothing was raised in
\* safe_upload and nothing but a return has reached its caller
NoFault ==
    /\ \A n \in Precursors : ~Failed(precursor_procs[n])
    /\ \A n \in UploadNames : ~Failed(upload_procs[n])
    /\ raised = NoExc
    /\ exc = NoExc
    /\ result \in {"none", "return"}

\* the steps of each process in a run where the precursors exit with
\* success, check_func returns, the uploader exits with success once its
\* stdin has ended, and no call of the operating system fails
PrecursorSucceeds == PrecursorExit /\ NoFault'

RepeaterStep ==
    \/ RepeaterRead
    \/ RepeaterForward
    \/ RepeaterProbe
    \/ RepeaterPoll

UploaderSucceeds == UploaderExit /\ NoFault'

SafeUploadStep ==
    \/ GetTermFile /\ NoFault'
    \/ SpawnRepeater /\ NoFault'
    \/ SpawnUploader /\ NoFault'
    \/ PollPrecursors
    \/ PollUpload
    \/ CheckFunc /\ NoFault'
    \/ Signal /\ NoFault'
    \/ WaitUpload
    \/ Finally /\ NoFault'

NextLive ==
    \/ PrecursorWrite
    \/ PrecursorSucceeds
    \/ RepeaterStep
    \/ UploaderSeesEOF
    \/ UploaderSucceeds
    \/ SafeUploadStep

\* every process that can take a step eventually takes one: the operating
\* system schedules the precursors, the repeater, the uploader and the
\* process that runs safe_upload, whose sleeps (lines 31, 131, 145) end
LiveSpec ==
    /\ Init
    /\ [][NextLive]_vars
    /\ WF_vars(PrecursorSucceeds)
    /\ WF_vars(RepeaterStep)
    /\ WF_vars(UploaderSeesEOF)
    /\ WF_vars(UploaderSucceeds)
    /\ WF_vars(SafeUploadStep)

\* ------------------------------------------------- properties

AllPrecursorsOK == \A n \in Precursors : precursor_procs[n] = "ok"

UploadSideStopped == \A n \in UploadNames : upload_procs[n] # "running"

\* C1: the uploader has read end-of-file on its stdin only if every
\* precursor had exited with success and check_func, when supplied, had
\* returned.
C1_EOFOnlyAfterCommit ==
    uploaderEOF => AllPrecursorsOK /\ (check_func => checked)

\* C2: anything is written to the term file only after the precursors have
\* been observed all-succeeded (and have all exited with success) and after
\* check_func has returned, and the final wait loop polls only after
\* TERM_STRING has been written.
C2_SignalOrdering ==
    /\ (signaled \/ termContents # <<>> \/ pc = "signal") =>
           /\ precursorsOK
           /\ AllPrecursorsOK
           /\ check_func => checked
    /\ pc = "signal" => ~waited /\ ~signaled
    /\ (waited \/ pc = "wait_upload") => signaled

\* C2 witness: TERM_STRING is written, check_func has returned, and the
\* final wait loop has not polled yet.
C2_Witness ==
    /\ pc = "wait_upload"
    /\ termContents = TERM_STRING
    /\ check_func /\ checked
    /\ ~waited

\* C3: when the precursor poll of safe_upload has found a failed precursor,
\* safe_upload ends with the term file never signaled, no upload proc
\* running, and a ProducerFailure reaching the caller.
C3_ProducerFailure ==
    (pc = "done" /\ raised = "ProducerFailure") =>
        /\ ~signaled
        /\ UploadSideStopped
        /\ result = "ProducerFailure"

\* C4: when every precursor has succeeded and check_func has raised,
\* safe_upload ends with the term file never signaled, no upload proc
\* running, and the failure of check_func reaching the caller.
C4_ValidationFailure ==
    (pc = "done" /\ raised = "ValidationFailure") =>
        /\ ~signaled
        /\ UploadSideStopped
        /\ result = "ValidationFailure"

\* C5: when safe_upload has returned normally, every precursor exited with
\* success, check_func (when supplied) returned, TERM_STRING was written,
\* the repeater and the uploader both exited with status 0, and the term
\* file does not exist.
C5_NormalReturn ==
    result = "return" =>
        /\ AllPrecursorsOK
        /\ precursorsOK
        /\ check_func => checked
        /\ signaled
        /\ upload_procs["repeater"] = "ok"
        /\ upload_procs["uploader"] = "ok"
        /\ ~termExists

\* C5 witness: a normal return of a job with a check_func.
C5_Witness == result = "return" /\ check_func /\ pc = "done"

C7_RemoveFailureDoesNotMask ==
    (/\ pc = "done"
     /\ raised \in {"ProducerFailure", "UploadSideFailure",
                    "ValidationFailure", "TokenSignalFailure"}
     /\ termBound /\ termExists) =>
        result = raised

\* C8: when get_term_file failed, what reaches the caller is that error,
\* and neither the repeater nor the uploader was spawned.
C8_CreateFailureUnchanged ==
    (pc = "done" /\ raised = "TokenCreateFailure") =>
        /\ result = "TokenCreateFailure"
        /\ \A n \in UploadNames : upload_procs[n] = "none"

\* C9: when the except clause re-raises, kill() has been called on each
\* upload proc that was spawned and whose pid exists, and the exception
\* re-raised is the condition first raised, whatever the kill calls did.
C9_KillThenReraise ==
    (pc \in {"finally", "done"} /\ raised # NoExc) =>
        /\ \A n \in UploadNames :
               (upload_procs[n] # "none" /\ pid_exists(n)) =>
                   n \in killAttempted
        /\ exc = raised

\* C10: no step of safe_upload changes the state of a precursor proc: a
\* precursor changes state only by exiting on its own or in the caller's
\* kill_precursor_procs.
C10_PrecursorsUntouched ==
    [][precursor_procs' # precursor_procs =>
           /\ pc' = pc
           /\ upload_procs' = upload_procs
           /\ PrecursorExit \/ KillPrecursorsKill]_vars

\* C10 witness: the failure teardown has killed the repeater and the
\* uploader while a precursor still runs.
C10_Witness ==
    /\ pc = "done"
    /\ killAttempted = UploadNames
    /\ UploadSideStopped
    /\ \E n \in Precursors : precursor_procs[n] = "running"

\* C11: no exception ever leaves kill_precursor_procs, whether a proc has
\* already exited or exits between the pid check and kill(), and once a
\* call has returned (the first or the second in a row) no precursor runs.
C11_KillNeverRaises ==
    /\ ~kRaised
    /\ (kpc = "idle" /\ kCalls >= 1) =>
           \A n \in Precursors : precursor_procs[n] # "running"

\* C11 witness: the second call in a row has returned, on procs the first
\* call had killed.
C11_Witness ==
    /\ kCalls = 2
    /\ kpc = "idle"
    /\ \E n \in Precursors : precursor_procs[n] = "killed"
    /\ ~kRaised

\* the first len(TERM_STRING) bytes of the contents are TERM_STRING
LeadingBytesMatch(contents) ==
    /\ Len(contents) >= Len(TERM_STRING)
    /\ \A i \in 1..Len(TERM_STRING) : contents[i] = TERM_STRING[i]

C13_OnlyExactContents ==
    polled.verdict => polled.contents = TERM_STRING

\* C13: a poll of the term file answers "signaled" exactly when the file
\* exists and the first len(TERM_STRING) bytes it holds are TERM_STRING,
\* whatever follows them; shorter and differing contents are not signaled.
C13_LeadingBytesDecide ==
    polled.seen =>
        (polled.verdict <=>
            (polled.exists /\ LeadingBytesMatch(polled.contents)))

\* C13 witness: the repeater has polled a term file that holds TERM_STRING
\* followed by one more byte, and took it as signaled.
C13_Witness ==
    /\ polled.seen
    /\ polled.contents = Overlong
    /\ polled.verdict
    /\ upload_procs["repeater"] = "ok"

\* the stream the last precursor has written so far
Stream == [i \in 1..nWritten |-> i]

C15_TokensDiffer ==
    \A j, k \in Jobs :
        (j # k /\ jpc[j] \in {"close", "done"} /\ jpc[k] \in {"close", "done"})
            => jpath[j] # jpath[k]

\* C15 witness: both jobs have got a path back from get_term_file and hold
\* their files at the same time.
C15_Witness ==
    /\ \A j \in Jobs : jpc[j] = "done" /\ jpath[j] \in files
    /\ Cardinality(files) = 2

C17_NothingLeftUnread ==
    upload_procs["repeater"] = "ok" =>
        /\ pipe = <<>>
        /\ out = Stream
        /\ StdinClosed

\* C17 witness: inside safe_upload the repeater has exited with status 0
\* after the term file was signaled, the whole stream of MaxBytes bytes
\* forwarded.
C17_Witness ==
    /\ upload_procs["repeater"] = "ok"
    /\ signaled
    /\ nWritten = MaxBytes
    /\ Len(out) = MaxBytes
    /\ pipe = <<>>

\* C18: the teardown of safe_upload deals with the uploader (kills it, or
\* finds it not spawned or its pid gone) before it attempts to kill the
\* repeater, so once the teardown has killed the repeater, which closes the
\* uploader's stdin, no uploader runs that could read the end-of-file.
C18_UploaderKilledFirst ==
    /\ (pc = "kill_repeater" \/ "repeater" \in killAttempted \cup killSkipped)
           => "uploader" \in killAttempted \cup killSkipped
    /\ "uploader" \in killAttempted \cup killSkipped
           => upload_procs["uploader"] # "running"
    /\ upload_procs["repeater"] = "killed"
           => upload_procs["uploader"] # "running"

\* C18 witness: the teardown has killed the running uploader and then the
\* running repeater, and the uploader has never read end-of-file.
C18_Witness ==
    /\ pc = "finally"
    /\ killAttempted = UploadNames
    /\ upload_procs["uploader"] = "killed"
    /\ upload_procs["repeater"] = "killed"
    /\ ~uploaderEOF

\* C19: under fair scheduling, when the precursors exit with success,
\* check_func returns and the uploader exits with success once its stdin
\* has ended, safe_upload eventually writes TERM_STRING to the term file,
\* the repeater eventually exits with status 0, and safe_upload eventually
\* returns to its caller.
C19_EventuallyReturns ==
    /\ <>signaled
    /\ <>(upload_procs["repeater"] = "ok")
    /\ <>(result = "return" /\ pc = "done")

\* C19 witness: safe_upload has returned after the precursors wrote
\* MaxBytes bytes and succeeded, with the repeater and the uploader both
\* exited with success and the term file removed.
C19_Witness ==
    /\ result = "return"
    /\ signaled
    /\ AllPrecursorsOK
    /\ \A n \in UploadNames : upload_procs[n] = "ok"
    /\ Len(out) = MaxBytes
    /\ ~termExists

\* C20: no call of get_term_file fails, also when two jobs call it while
\* the term directory does not exist yet: each call ends with a path.
C20_BothCreationsSucceed ==
    \A j \in Jobs : jpc[j] # "failed"

=============================================================================
